---- MODULE Spec2Model ----
(***************************************************************************)
(* cah-sql-quick: the transform-and-load pipeline of src/interfaces.ts     *)
(* (main, createTables, insertData) as a state machine.                    *)
(*                                                                         *)
(* Strings the program slices (deck names, card texts) are sequences of    *)
(* one-character strings, so that substring(0, 7) and template-literal     *)
(* concatenation are computed, not assumed.                                *)
(*                                                                         *)
(* The destination store is the environment.  It is modelled as follows:   *)
(*  - a table is the set of its visible rows; a transaction keeps the      *)
(*    rows it started from and rollback restores them;                     *)
(*  - the statements issued on one transaction handle share one            *)
(*    connection: those in flight complete in any order, and the COMMIT    *)
(*    or ROLLBACK that releases the handle is executed after every         *)
(*    statement issued before it;                                          *)
(*  - a row insert fails on a primary-key conflict, on a NOT NULL column   *)
(*    it gives no value for (a pre-existing Decks table of another shape,  *)
(*    which createTableIfNotExists leaves alone), or on an injected        *)
(*    transport failure; sqlite does not enforce foreign keys (its         *)
(*    default), the other two stores do;                                   *)
(*  - a failed statement undoes only itself in sqlite and SQL Server; in   *)
(*    PostgreSQL it aborts the transaction: every later statement fails    *)
(*    (25P02) and COMMIT ends the transaction as a rollback, reporting no  *)
(*    error.                                                               *)
(***************************************************************************)
EXTENDS Integers, Sequences, FiniteSets, TLC

\* ------------------------------------------------------------------ bounds

\* Runs of the program against the same destination.
MaxRuns == 2
\* Injected transport / decode failures in one behaviour.
MaxFaults == 1
\* Decks in one input document.
MaxDecks == 2

\* ------------------------------------------------------- program constants

\* trx.batchInsert(cardsTableNameForInsert, allCardsToInsert, 50)
ChunkSize == 50
\* cardText.substring(0, 7)
PrefixLen == 7

CARD_ID_NAMESPACE == "8a903250-8b77-43b2-802d-6f1e261704fd"

DbTypes == {"sqlite", "sqlserver", "postgresql"}

\* ------------------------------------------------------------ JS helpers

Min(a, b) == IF a < b THEN a ELSE b

\* The value of reading past the end of an array.
Undefined == <<"undefined">>

\* pick: null (white card) or a number.
Null == <<>>
Num(n) == <<n>>

DigitChar(d) == <<"0", "1", "2", "3", "4", "5", "6", "7", "8", "9">>[d + 1]

\* `${n}` for a non-negative integer n: its decimal digits.
RECURSIVE Digits(_)
Digits(n) == IF n < 10 THEN <<DigitChar(n)>>
             ELSE Digits(n \div 10) \o <<DigitChar(n % 10)>>

\* s.substring(0, n)
Substring(s, n) == SubSeq(s, 1, Min(n, Len(s)))

\* array[i] with a 0-based index
PoolAt(pool, i) == IF (i + 1) \in DOMAIN pool THEN pool[i + 1] ELSE Undefined

WhiteTag == <<"_", "w", "h", "i", "t", "e", "_">>
BlackTag == <<"_", "b", "l", "a", "c", "k", "_">>

\* `${deckName}_white_${indexInDeckArray}_${cardText.substring(0, 7)}`
WhiteNameString(deckName, indexInDeckArray, cardText) ==
    deckName \o WhiteTag \o Digits(indexInDeckArray) \o <<"_">>
             \o Substring(cardText, PrefixLen)

\* `${deckName}_black_${indexInDeckArray}_${blackCard.text.substring(0, 7)}`
BlackNameString(deckName, indexInDeckArray, cardText) ==
    deckName \o BlackTag \o Digits(indexInDeckArray) \o <<"_">>
             \o Substring(cardText, PrefixLen)

\* uuidv5(name, namespace): a function of the namespace and the name string,
\* taken to be injective on them.
uuidv5(name, namespace) == [ns |-> namespace, name |-> name]

\* ------------------------------------------------------- input documents

Bananas   == <<"B", "a", "n", "a", "n", "a", "s">>
ARock     == <<"A", " ", "r", "o", "c", "k">>
BananasX  == <<"B", "a", "n", "a", "n", "a", "s", "!">>
IsGreat   == <<"_", "_", "_", " ", "i", "s", " ", "g", "r", "e", "a", "t", ".">>
Why       == <<"W", "h", "y", "?">>

WhitePool == <<Bananas, ARock, BananasX>>
BlackPool == <<[text |-> IsGreat, pick |-> 1], [text |-> Why, pick |-> 2]>>

NameBase == <<"B", "a", "s", "e">>
NameExp  == <<"E", "x", "p">>
NameBig  == <<"B", "i", "g">>
NameNil  == <<"N", "i", "l">>

\* A white index list longer than one batch.
LongList == [k \in 1..(ChunkSize + 1) |-> 0]

\* Metadata entries: the key of the metadata map and the DeckData under it.
DeckEntries ==
    << [key |-> 1, id |-> 1, name |-> NameBase, official |-> TRUE,
        white |-> <<0, 1>>, black |-> <<0>>],
       [key |-> 2, id |-> 2, name |-> NameBase, official |-> FALSE,
        white |-> <<0>>, black |-> <<>>],
       [key |-> 3, id |-> 2, name |-> NameExp, official |-> TRUE,
        white |-> <<0, 5, 2>>, black |-> <<-1, 1>>],
       [key |-> 4, id |-> 4, name |-> NameBig, official |-> TRUE,
        white |-> LongList, black |-> <<>>],
       [key |-> 5, id |-> 5, name |-> NameNil, official |-> FALSE,
        white |-> <<7>>, black |-> <<3>>] >>

RECURSIVE SeqOfKeys(_)
\* The entries under a set of keys, in the order for...in visits
\* integer-like keys: ascending.
SeqOfKeys(ks) ==
    IF ks = {} THEN <<>>
    ELSE LET k == CHOOSE x \in ks : \A y \in ks : x <= y
         IN <<DeckEntries[k]>> \o SeqOfKeys(ks \ {k})

Documents ==
    { [white |-> WhitePool, black |-> BlackPool, metadata |-> SeqOfKeys(ks)] :
        ks \in { s \in SUBSET (DOMAIN DeckEntries) : Cardinality(s) <= MaxDecks } }

\* ------------------------------------------------------ card preparation

\* cardContentIndex >= 0 && cardContentIndex < pool.length
InRangeNoLower(cardContentIndex, length) == cardContentIndex < length
InRange(cardContentIndex, length) ==
    cardContentIndex >= 0 /\ cardContentIndex < length

\* The Card pushed for a white index entry.
WhiteCardKeyId(deckDetails, data, cardContentIndex, indexInDeckArray) ==
    LET cardText == PoolAt(data.white, cardContentIndex)
    IN [id |-> uuidv5(WhiteNameString(deckDetails.name, indexInDeckArray, cardText),
                      CARD_ID_NAMESPACE),
        deckId |-> deckDetails.key,
        text |-> cardText,
        pick |-> Null]
WhiteCard(deckDetails, data, cardContentIndex, indexInDeckArray) ==
    LET cardText == PoolAt(data.white, cardContentIndex)
    IN [id |-> uuidv5(WhiteNameString(deckDetails.name, indexInDeckArray, cardText),
                      CARD_ID_NAMESPACE),
        deckId |-> deckDetails.id,
        text |-> cardText,
        pick |-> Null]

\* The Card pushed for a black index entry.
BlackCard(deckDetails, data, cardContentIndex, indexInDeckArray) ==
    LET blackCard == IF (cardContentIndex + 1) \in DOMAIN data.black
                     THEN data.black[cardContentIndex + 1]
                     ELSE [text |-> Undefined, pick |-> 0]
    IN [id |-> uuidv5(BlackNameString(deckDetails.name, indexInDeckArray, blackCard.text),
                      CARD_ID_NAMESPACE),
        deckId |-> deckDetails.id,
        text |-> blackCard.text,
        pick |-> Num(blackCard.pick)]

IndexWarning(deckDetails, color, cardContentIndex) ==
    [deck |-> deckDetails.id, color |-> color, index |-> cardContentIndex]

\* acc: what the loops have built so far: the cards pushed, the invalid-index
\* warnings written, and whether reading a text off an undefined pool entry
\* has thrown.
EmptyAcc == [cards |-> <<>>, warnings |-> <<>>, raised |-> FALSE]

Push(acc, card) ==
    IF card.text = Undefined
    THEN [acc EXCEPT !.raised = TRUE]
    ELSE [acc EXCEPT !.cards = Append(@, card)]

RECURSIVE WhiteLoop(_, _, _, _)
\* deckDetails.white.forEach((cardContentIndex, indexInDeckArray) => ...),
\* from the p-th entry on.
WhiteLoop(deckDetails, data, p, acc) ==
    IF p > Len(deckDetails.white) \/ acc.raised THEN acc
    ELSE LET cardContentIndex == deckDetails.white[p]
         IN WhiteLoop(deckDetails, data, p + 1,
               IF InRange(cardContentIndex, Len(data.white))
               THEN Push(acc, WhiteCard(deckDetails, data, cardContentIndex, p - 1))
               ELSE [acc EXCEPT !.warnings =
                        Append(@, IndexWarning(deckDetails, "white", cardContentIndex))])

RECURSIVE BlackLoop(_, _, _, _)
\* deckDetails.black.forEach((cardContentIndex, indexInDeckArray) => ...),
\* from the p-th entry on.
BlackLoop(deckDetails, data, p, acc) ==
    IF p > Len(deckDetails.black) \/ acc.raised THEN acc
    ELSE LET cardContentIndex == deckDetails.black[p]
         IN BlackLoop(deckDetails, data, p + 1,
               IF InRange(cardContentIndex, Len(data.black))
               THEN Push(acc, BlackCard(deckDetails, data, cardContentIndex, p - 1))
               ELSE [acc EXCEPT !.warnings =
                        Append(@, IndexWarning(deckDetails, "black", cardContentIndex))])

RECURSIVE DeckLoop(_, _, _)
\* for (const deckIdString in data.metadata): white entries, then black
\* entries, of the k-th deck on.
DeckLoop(data, k, acc) ==
    IF k > Len(data.metadata) \/ acc.raised THEN acc
    ELSE DeckLoop(data, k + 1,
            BlackLoop(data.metadata[k], data, 1,
                WhiteLoop(data.metadata[k], data, 1, acc)))

\* allCardsToInsert and the warnings, for a whole document.
PrepareAll(data) == DeckLoop(data, 1, EmptyAcc)

\* ------------------------------------------------------ destination store

\* The error a store's driver reports for a failed insert.
\* kind: "unique" (primary key / unique violation), "notnull" (NOT NULL
\* violation), "fk" (foreign key violation), "conn" (transport failure),
\* "aborted" (PostgreSQL: a statement in a transaction an earlier failure
\* aborted).
DriverError(dbType, kind) ==
    CASE dbType = "sqlite" ->
            [code |-> IF kind = "conn" THEN "SQLITE_IOERR" ELSE "SQLITE_CONSTRAINT",
             number |-> 0]
      [] dbType = "postgresql" ->
            [code |-> CASE kind = "unique" -> "23505"
                        [] kind = "notnull" -> "23502"
                        [] kind = "fk" -> "23503"
                        [] kind = "aborted" -> "25P02"
                        [] OTHER -> "ECONNRESET",
             number |-> 0]
      [] OTHER ->
            [code |-> IF kind = "conn" THEN "ESOCKET" ELSE "EREQUEST",
             number |-> CASE kind = "unique" -> 2627
                          [] kind = "notnull" -> 515
                          [] kind = "fk" -> 547
                          [] OTHER -> 0]

\* The test of the deck insert's catch handler.
IsConflictError(error) ==
    \/ error.code = "SQLITE_CONSTRAINT"
    \/ error.code = "23505"
    \/ (error.number = 2627 \/ error.number = 2601)

\* The row a deck insert writes.
DeckRow(deckDetails) ==
    [id |-> deckDetails.id, name |-> deckDetails.name,
     official |-> deckDetails.official]

\* What the store answers to the insert of one Decks row: "ok" or the kind of
\* the failure.
DeckInsertResult(row, decks, schema, isAborted) ==
    IF isAborted THEN "aborted"
    ELSE IF schema = "legacy" THEN "notnull"
    ELSE IF \E r \in decks : r.id = row.id THEN "unique"
    ELSE "ok"

\* The chunks batchInsert cuts the rows into.
NumChunks(rows, size) == (Len(rows) + size - 1) \div size
ChunkShort(rows, size, n) ==
    SubSeq(rows, (n - 1) * size + 1, Min(n * size, Len(rows)) - 1)
Chunk(rows, size, n) ==
    SubSeq(rows, (n - 1) * size + 1, Min(n * size, Len(rows)))

Range(s) == { s[i] : i \in DOMAIN s }

\* What the store answers to one multi-row insert into Cards.
CardInsertResult(chunk, cards, decks, dbType, isAborted) ==
    IF isAborted THEN "aborted"
    ELSE IF \/ \E i \in DOMAIN chunk : \E r \in cards : r.id = chunk[i].id
       \/ \E i, j \in DOMAIN chunk : i # j /\ chunk[i].id = chunk[j].id
    THEN "unique"
    ELSE IF /\ dbType # "sqlite"
            /\ \E i \in DOMAIN chunk : \A d \in decks : d.id # chunk[i].deckId
    THEN "fk"
    ELSE "ok"

\* ------------------------------------------------------------------ state

VARIABLES
    data,         \* the input document (jsonData)
    dbType,       \* argv.dbType
    decksSchema,  \* the Decks table: "absent", "own" (created by createTables), "legacy"
    cardsSchema,  \* the Cards table: "absent", "own"
    decksTable,   \* the visible rows of Decks
    cardsTable,   \* the visible rows of Cards
    run,          \* which run of the program this is
    pc,           \* where main is
    db,           \* main's db: "null", "open", "destroyed"
    exitCode,     \* process.exitCode
    trx,          \* the transaction of insertData: "none", "open", "committed", "rolledback"
    snap,         \* the rows the transaction started from
    releases,     \* how many times this run's transaction was released
    cb,           \* the transaction callback's promise: "idle", "running", "resolved", "rejected"
    inFlight,     \* the deck inserts that were in flight when the callback settled
    aborted,      \* PostgreSQL: a statement of the transaction has failed
    pending,      \* the deck inserts in flight (positions in data.metadata)
    deckRes,      \* per deck insert: the store's answer and what the handlers made of it
    allCards,     \* allCardsToInsert
    warnings,     \* the invalid-index warnings written
    nextChunk,    \* the next chunk batchInsert sends
    failures,     \* the failures that happened in this run
    faults,       \* injected failures so far
    prev          \* how the previous run's transaction ended ("first" in the first run)

vars == <<data, dbType, decksSchema, cardsSchema, decksTable, cardsTable, run, pc,
          db, exitCode, trx, snap, releases, cb, inFlight, aborted, pending,
          deckRes,
          allCards, warnings, nextChunk, failures, faults, prev>>

env == <<data, dbType>>
schema == <<decksSchema, cardsSchema>>
tables == <<decksTable, cardsTable>>
load == <<pending, deckRes, allCards, warnings, nextChunk>>
txn == <<trx, snap, releases, cb, inFlight, aborted>>

\* A failed statement aborts a PostgreSQL transaction.
Aborts(kind) == dbType = "postgresql" /\ kind # "ok"

NoRes == [kind |-> "none", outcome |-> "none"]

Init ==
    /\ data \in Documents
    /\ dbType \in DbTypes
    /\ decksSchema \in {"absent", "legacy"}
    /\ cardsSchema = "absent"
    /\ decksTable = {}
    /\ cardsTable = {}
    /\ run = 1
    /\ pc = "start"
    /\ db = "null"
    /\ exitCode = 0
    /\ trx = "none"
    /\ snap = [decks |-> {}, cards |-> {}]
    /\ releases = 0
    /\ cb = "idle"
    /\ inFlight = {}
    /\ aborted = FALSE
    /\ pending = {}
    /\ deckRes = [k \in DOMAIN data.metadata |-> NoRes]
    /\ allCards = <<>>
    /\ warnings = <<>>
    /\ nextChunk = 1
    /\ failures = {}
    /\ faults = 0
    /\ prev = "first"

CanFault == faults < MaxFaults

\* A step of main fails: the error is thrown into main's catch block.
Throw(kind) ==
    /\ CanFault
    /\ faults' = faults + 1
    /\ failures' = failures \cup {kind}
    /\ pc' = "catch"

\* ------------------------------------------------------------------- main

\* knexConfig by dbType; db = knex(knexConfig)
Configure ==
    /\ pc = "start"
    /\ db' = "open"
    /\ pc' = "health"
    /\ UNCHANGED <<env, schema, tables, run, exitCode, txn, load, failures, faults, prev>>

\* await db.raw('SELECT 1')
HealthCheck ==
    /\ pc = "health"
    /\ \/ /\ pc' = "createDecks"
          /\ UNCHANGED <<failures, faults>>
       \/ Throw("health")
    /\ UNCHANGED <<env, schema, tables, run, db, exitCode, txn, load, prev>>

\* createTables: schemaBuilder.createTableIfNotExists('Decks', ...)
CreateDecksTable ==
    /\ pc = "createDecks"
    /\ \/ /\ decksSchema' = IF decksSchema = "absent" THEN "own" ELSE decksSchema
          /\ pc' = "createCards"
          /\ UNCHANGED <<failures, faults>>
       \/ /\ Throw("create")
          /\ UNCHANGED decksSchema
    /\ UNCHANGED <<env, cardsSchema, tables, run, db, exitCode, txn, load, prev>>

\* createTables: schemaBuilder.createTableIfNotExists('Cards', ...)
CreateCardsTable ==
    /\ pc = "createCards"
    /\ \/ /\ cardsSchema' = IF cardsSchema = "absent" THEN "own" ELSE cardsSchema
          /\ pc' = "read"
          /\ UNCHANGED <<failures, faults>>
       \/ /\ Throw("create")
          /\ UNCHANGED cardsSchema
    /\ UNCHANGED <<env, decksSchema, tables, run, db, exitCode, txn, load, prev>>

\* fs.readFile(argv.inputFile) and JSON.parse(fileContent)
ReadInput ==
    /\ pc = "read"
    /\ \/ /\ pc' = "begin"
          /\ UNCHANGED <<failures, faults>>
       \/ Throw("decode")
    /\ UNCHANGED <<env, schema, tables, run, db, exitCode, txn, load, prev>>

\* catch (error) { process.exitCode = 1 }
Catch ==
    /\ pc = "catch"
    /\ exitCode' = 1
    /\ pc' = "finally"
    /\ UNCHANGED <<env, schema, tables, run, db, txn, load, failures, faults, prev>>

\* finally { if (db) await db.destroy() }
Finally ==
    /\ pc = "finally"
    /\ db' = IF db = "open" THEN "destroyed" ELSE db
    /\ pc' = "exited"
    /\ UNCHANGED <<env, schema, tables, run, exitCode, txn, load, failures, faults, prev>>

\* The program is started again, against the same destination and input.
NextRun ==
    /\ pc = "exited"
    /\ run < MaxRuns
    /\ pending = {}
    /\ run' = run + 1
    /\ prev' = trx
    /\ pc' = "start"
    /\ db' = "null"
    /\ exitCode' = 0
    /\ trx' = "none"
    /\ releases' = 0
    /\ cb' = "idle"
    /\ inFlight' = {}
    /\ aborted' = FALSE
    /\ deckRes' = [k \in DOMAIN data.metadata |-> NoRes]
    /\ allCards' = <<>>
    /\ warnings' = <<>>
    /\ nextChunk' = 1
    /\ failures' = {}
    /\ UNCHANGED <<env, schema, tables, snap, pending, faults>>

\* ------------------------------------------------------------- insertData

\* await db.transaction(async (trx) => { ... }): the transaction begins and
\* the callback starts.
BeginTransaction ==
    /\ pc = "begin"
    /\ trx' = "open"
    /\ snap' = [decks |-> decksTable, cards |-> cardsTable]
    /\ cb' = "running"
    /\ aborted' = FALSE
    /\ pc' = "issue"
    /\ UNCHANGED <<env, schema, tables, run, db, exitCode, releases, inFlight, load,
                   failures, faults, prev>>

\* The first loop over data.metadata: every deck insert is issued on trx, none
\* awaited yet.
IssueDeckInserts ==
    /\ pc = "issue"
    /\ pending' = DOMAIN data.metadata
    /\ pc' = "awaitDecks"
    /\ UNCHANGED <<env, schema, tables, run, db, exitCode, txn, deckRes, allCards,
                   warnings, nextChunk, failures, faults, prev>>

DeckFailure(kind) ==
    CASE kind = "unique" -> "deck_unique"
      [] kind = "notnull" -> "deck_notnull"
      [] kind = "aborted" -> "deck_aborted"
      [] OTHER -> "deck_conn"

\* What the .then / .catch handlers of a deck insert make of the store's
\* answer: "inserted", "skipped" (the warning) or "thrown" (the rethrow).
DeckOutcome(kind, type) ==
    IF kind = "ok" THEN "inserted"
    ELSE IF IsConflictError(DriverError(type, kind)) THEN "skipped"
    ELSE "thrown"

\* The store answers the k-th deck insert and its handlers run.
Settle(k, kind) ==
    /\ deckRes' = [deckRes EXCEPT ![k] =
                     [kind |-> kind, outcome |-> DeckOutcome(kind, dbType)]]
    /\ pending' = pending \ {k}
    /\ decksTable' = IF kind = "ok"
                     THEN decksTable \cup {DeckRow(data.metadata[k])}
                     ELSE decksTable
    /\ failures' = IF kind = "ok" THEN failures
                   ELSE failures \cup {DeckFailure(kind)}
    /\ aborted' = (aborted \/ Aborts(kind))

ExecDeckInsert(k) ==
    /\ k \in pending
    /\ \/ /\ Settle(k, DeckInsertResult(DeckRow(data.metadata[k]), decksTable,
                                        decksSchema, aborted))
          /\ UNCHANGED faults
       \/ /\ CanFault
          /\ faults' = faults + 1
          /\ Settle(k, "conn")
    /\ UNCHANGED <<env, schema, cardsTable, run, pc, db, exitCode, trx, snap,
                   releases, cb, inFlight, allCards, warnings, nextChunk, prev>>

\* await Promise.all(deckInsertPromises): every promise has resolved.
PromiseAllResolve ==
    /\ pc = "awaitDecks"
    /\ pending = {}
    /\ \A k \in DOMAIN deckRes : deckRes[k].outcome # "thrown"
    /\ pc' = "prepare"
    /\ UNCHANGED <<env, schema, tables, run, db, exitCode, txn, load, failures,
                   faults, prev>>

\* await Promise.all(deckInsertPromises): one promise has rejected; the
\* callback rejects with its error, whatever is still in flight.
PromiseAllReject ==
    /\ pc = "awaitDecks"
    /\ \E k \in DOMAIN deckRes : deckRes[k].outcome = "thrown"
    /\ cb' = "rejected"
    /\ inFlight' = pending
    /\ pc' = "release"
    /\ UNCHANGED <<env, schema, tables, run, db, exitCode, trx, snap, releases,
                   aborted, load, failures, faults, prev>>

\* The second loop over data.metadata, and the test of allCardsToInsert.length.
PrepareCards ==
    /\ pc = "prepare"
    /\ LET acc == PrepareAll(data)
       IN /\ allCards' = acc.cards
          /\ warnings' = acc.warnings
          /\ IF acc.raised
             THEN /\ cb' = "rejected"
                  /\ pc' = "release"
                  /\ failures' = failures \cup {"prepare"}
             ELSE /\ failures' = failures
                  /\ IF Len(acc.cards) > 0
                     THEN pc' = "batch" /\ cb' = cb
                     ELSE pc' = "release" /\ cb' = "resolved"
    /\ nextChunk' = 1
    /\ UNCHANGED <<env, schema, tables, run, db, exitCode, trx, snap, releases,
                   inFlight, aborted, pending, deckRes, faults, prev>>

BatchFailure(kind) ==
    CASE kind = "unique" -> "batch_unique"
      [] kind = "fk" -> "batch_fk"
      [] kind = "aborted" -> "batch_aborted"
      [] OTHER -> "batch_conn"

\* The store's answer to the next chunk: its rows are written, or none is and
\* batchInsert rejects.
SettleChunk(kind) ==
    IF kind = "ok"
    THEN /\ cardsTable' = cardsTable \cup Range(Chunk(allCards, ChunkSize, nextChunk))
         /\ failures' = failures
         /\ aborted' = aborted
         /\ IF nextChunk < NumChunks(allCards, ChunkSize)
            THEN nextChunk' = nextChunk + 1 /\ pc' = pc /\ cb' = cb
            ELSE nextChunk' = nextChunk /\ pc' = "release" /\ cb' = "resolved"
    ELSE /\ cardsTable' = cardsTable
         /\ failures' = failures \cup {BatchFailure(kind)}
         /\ aborted' = (aborted \/ Aborts(kind))
         /\ nextChunk' = nextChunk
         /\ pc' = "release"
         /\ cb' = "rejected"

\* await trx.batchInsert(cardsTableNameForInsert, allCardsToInsert, 50): one
\* chunk, each awaited before the next is sent.
InsertBatch ==
    /\ pc = "batch"
    /\ \/ /\ SettleChunk(CardInsertResult(Chunk(allCards, ChunkSize, nextChunk),
                                          cardsTable, decksTable, dbType, aborted))
          /\ UNCHANGED faults
       \/ /\ CanFault
          /\ faults' = faults + 1
          /\ SettleChunk("conn")
    /\ UNCHANGED <<env, schema, decksTable, run, db, exitCode, trx, snap, releases,
                   inFlight, pending, deckRes, allCards, warnings, prev>>

\* The connection runs the statement that releases the transaction after the
\* statements issued before it.
CanReleaseEarly == TRUE
CanRelease == pending = {}

\* The callback resolved: COMMIT is sent and insertData returns.  An aborted
\* PostgreSQL transaction ends as a rollback, without an error.
Commit ==
    /\ pc = "release"
    /\ cb = "resolved"
    /\ CanRelease
    /\ trx' = "committed"
    /\ releases' = releases + 1
    /\ decksTable' = IF aborted THEN snap.decks ELSE decksTable
    /\ cardsTable' = IF aborted THEN snap.cards ELSE cardsTable
    /\ pc' = "finally"
    /\ UNCHANGED <<env, schema, run, db, exitCode, snap, cb, inFlight, aborted, load,
                   failures, faults, prev>>

\* The callback rejected: the transaction rolls back and insertData throws
\* into main's catch block.
Rollback ==
    /\ pc = "release"
    /\ cb = "rejected"
    /\ CanRelease
    /\ trx' = "rolledback"
    /\ releases' = releases + 1
    /\ decksTable' = snap.decks
    /\ cardsTable' = snap.cards
    /\ pc' = "catch"
    /\ UNCHANGED <<env, schema, run, db, exitCode, snap, cb, inFlight, aborted, load,
                   failures, faults, prev>>

Next ==
    \/ Configure
    \/ HealthCheck
    \/ CreateDecksTable
    \/ CreateCardsTable
    \/ ReadInput
    \/ BeginTransaction
    \/ IssueDeckInserts
    \/ \E k \in DOMAIN data.metadata : ExecDeckInsert(k)
    \/ PromiseAllResolve
    \/ PromiseAllReject
    \/ PrepareCards
    \/ InsertBatch
    \/ Commit
    \/ Rollback
    \/ Catch
    \/ Finally
    \/ NextRun

Spec == Init /\ [][Next]_vars

\* ----------------------------------------------------------------- claims

\* Failures that are not row conflicts: the ones the load must treat as fatal.
InjectedKinds == {"health", "create", "decode", "deck_conn", "batch_conn"}
FatalInsertKinds == {"deck_notnull", "deck_conn", "deck_aborted", "batch_unique",
                     "batch_fk", "batch_conn", "batch_aborted"}
FatalKinds == InjectedKinds \cup FatalInsertKinds \cup {"prepare"}

Released == trx \in {"committed", "rolledback"}

\* The index entries of the document: deck position, color, position in the
\* deck's list.
Entries ==
    UNION { { [k |-> k, color |-> "white", p |-> p] :
                p \in DOMAIN data.metadata[k].white }
            \cup { [k |-> k, color |-> "black", p |-> p] :
                p \in DOMAIN data.metadata[k].black } :
            k \in DOMAIN data.metadata }

EntryList(e) == IF e.color = "white" THEN data.metadata[e.k].white
                ELSE data.metadata[e.k].black
EntryPool(e) == IF e.color = "white" THEN data.white ELSE data.black
EntryIndex(e) == EntryList(e)[e.p]
Valid(e) == 0 <= EntryIndex(e) /\ EntryIndex(e) < Len(EntryPool(e))

AllEntries == Entries
ValidEntries == { e \in AllEntries : Valid(e) }

\* e comes before f in emission order: decks in metadata order, white before
\* black within a deck, list order within a color.
Before(e, f) ==
    \/ e.k < f.k
    \/ e.k = f.k /\ e.color = "white" /\ f.color = "black"
    \/ e.k = f.k /\ e.color = f.color /\ e.p < f.p

\* The 1-based rank of a valid entry among the valid entries.
Rank(e) == 1 + Cardinality({ f \in ValidEntries : Before(f, e) })

\* The second loop of the callback has run in this run.
Prepared ==
    /\ pc \in {"batch", "release", "finally", "catch", "exited"}
    /\ trx # "none"
    /\ pending = {}
    /\ \A k \in DOMAIN deckRes : deckRes[k].outcome \in {"inserted", "skipped"}

DistinctIds ==
    \A i, j \in DOMAIN data.metadata :
        i # j => data.metadata[i].id # data.metadata[j].id

\* C1: a second run of the load against the destination a successful first
\* run of the same document populated (tables made by createTables, no
\* transport failure) inserts no new row, reports only conflicts that were
\* skipped, and ends committed with exit code 0.
C1_RerunSafe ==
    (/\ run > 1 /\ prev = "committed" /\ pc = "exited"
     /\ decksSchema = "own"
     /\ failures \cap InjectedKinds = {})
    => /\ trx = "committed"
       /\ exitCode = 0
       /\ failures \subseteq {"deck_unique"}
       /\ decksTable = snap.decks
       /\ cardsTable = snap.cards

\* C2: when a step of insertData has failed fatally (a deck insert for
\* another reason than a conflict, or a card batch), the Decks and Cards
\* tables hold after the run exactly the rows they held before it.
C2_Atomicity ==
    (pc = "exited" /\ trx # "none" /\ failures \cap FatalInsertKinds # {})
    => (decksTable = snap.decks /\ cardsTable = snap.cards)

\* C3: a failed deck insert is downgraded to a skip if and only if the
\* failure is a uniqueness / primary-key conflict, for every store kind; any
\* other failure is rethrown and the unit of work ends rolled back.
C3_Classification ==
    /\ \A k \in DOMAIN deckRes :
          deckRes[k].kind \notin {"none", "ok"}
          => /\ (deckRes[k].outcome = "skipped") <=> (deckRes[k].kind = "unique")
             /\ (deckRes[k].outcome = "thrown") <=> (deckRes[k].kind # "unique")
    /\ (pc = "exited" /\ failures \cap {"deck_notnull", "deck_conn", "deck_aborted"} # {})
       => trx = "rolledback"

\* C4: card preparation emits exactly one Card for each index entry i with
\* 0 <= i < len(pool), none for any other entry, one warning for each entry
\* it skips, and never raises; entries after a skipped one, in the same deck
\* and in later decks, are still emitted.
C4_IndexBoundSafety ==
    Prepared
    => /\ "prepare" \notin failures
       /\ Len(allCards) = Cardinality(ValidEntries)
       /\ Len(warnings) = Cardinality(AllEntries \ ValidEntries)
       /\ \A e \in ValidEntries :
             allCards[Rank(e)].deckId = data.metadata[e.k].id
       /\ \A e \in AllEntries \ ValidEntries :
             \E w \in DOMAIN warnings :
                warnings[w] = [deck |-> data.metadata[e.k].id, color |-> e.color,
                               index |-> EntryIndex(e)]

\* C4 witness: a document was prepared that has warnings and cards, one of
\* the cards coming from an entry behind a skipped one.
C4_Witness ==
    /\ Prepared
    /\ Len(warnings) >= 2
    /\ \E e, f \in AllEntries :
          /\ e.k = f.k /\ e.color = f.color /\ e.p < f.p
          /\ ~Valid(e) /\ Valid(f)
          /\ allCards[Rank(f)].text = EntryPool(f)[EntryIndex(f) + 1]

\* C5: a Card from a white list has pick = null and text = whitePool[i]; a
\* Card from a black list has pick and text of blackPool[i]; deckId is the
\* DeckSpec's id, not the metadata key; cards come in metadata order, white
\* before black within a deck, in list order.
C5_ColorPickMapping ==
    Prepared
    => /\ Len(allCards) = Cardinality(ValidEntries)
       /\ \A e \in ValidEntries :
             LET c == allCards[Rank(e)]
                 src == EntryPool(e)[EntryIndex(e) + 1]
             IN /\ c.deckId = data.metadata[e.k].id
                /\ e.color = "white" => (c.pick = Null /\ c.text = src)
                /\ e.color = "black" => (c.pick = Num(src.pick) /\ c.text = src.text)

\* C5 witness: a deck whose metadata key differs from its id was prepared
\* with a white and a black card.
C5_Witness ==
    /\ Prepared
    /\ \E e, f \in ValidEntries :
          /\ e.k = f.k /\ e.color = "white" /\ f.color = "black"
          /\ data.metadata[e.k].key # data.metadata[e.k].id
          /\ allCards[Rank(e)].pick = Null
          /\ allCards[Rank(f)].pick # Null
          /\ Rank(e) < Rank(f)

\* C6: the cards one run emits, which differ pairwise in deck, color or
\* position, have pairwise different identifiers, so the card batches of a
\* run into empty tables (made by createTables) never hit a primary-key
\* conflict.
C6_DistinctIds ==
    decksSchema = "own"
    => /\ \A i, j \in DOMAIN allCards : i # j => allCards[i].id # allCards[j].id
       /\ snap.cards = {} => "batch_unique" \notin failures

\* C7: no card batch is sent while a deck insert is unresolved, and every
\* Card row visible in the Cards table refers to a Deck row present in the
\* Decks table.
C7_DecksBeforeCards ==
    /\ pc = "batch"
       => /\ pending = {}
          /\ \A k \in DOMAIN deckRes : deckRes[k].outcome # "none"
    /\ \A c \in cardsTable : \E d \in decksTable : d.id = c.deckId

\* The Card rows a document's valid entries stand for.
ExpectedCardRows ==
    { [id |-> uuidv5(data.metadata[e.k].name
                       \o (IF e.color = "white" THEN WhiteTag ELSE BlackTag)
                       \o Digits(e.p - 1) \o <<"_">>
                       \o Substring(IF e.color = "white"
                                    THEN data.white[EntryIndex(e) + 1]
                                    ELSE data.black[EntryIndex(e) + 1].text, 7),
                     CARD_ID_NAMESPACE),
       deckId |-> data.metadata[e.k].id,
       text |-> IF e.color = "white" THEN data.white[EntryIndex(e) + 1]
                ELSE data.black[EntryIndex(e) + 1].text,
       pick |-> IF e.color = "white" THEN Null
                ELSE Num(data.black[EntryIndex(e) + 1].pick)] : e \in ValidEntries }

FreshRun ==
    /\ pc = "exited"
    /\ trx # "none"
    /\ decksSchema = "own"
    /\ snap.decks = {} /\ snap.cards = {}
    /\ DistinctIds

\* C8: for a document whose decks have pairwise distinct ids, a successful
\* run against empty tables made by createTables leaves exactly one Deck row
\* {id, name, official} per DeckSpec and exactly one Card row per in-range
\* index entry, and nothing else; a document without in-range entries sends
\* no card batch and, nothing failing, ends committed with its Deck rows.
C8_FreshLoad ==
    /\ (FreshRun /\ trx = "committed")
       => /\ decksTable = { [id |-> data.metadata[k].id,
                             name |-> data.metadata[k].name,
                             official |-> data.metadata[k].official] :
                            k \in DOMAIN data.metadata }
          /\ Cardinality(decksTable) = Len(data.metadata)
          /\ cardsTable = ExpectedCardRows
          /\ Cardinality(cardsTable) = Cardinality(ValidEntries)
    /\ (FreshRun /\ ValidEntries = {} /\ failures = {})
       => /\ trx = "committed"
          /\ exitCode = 0
          /\ cardsTable = {}
          /\ Cardinality(decksTable) = Len(data.metadata)

\* C8 witness: a committed run into empty tables that needed more than one
\* batch.
C8_Witness ==
    /\ FreshRun
    /\ trx = "committed"
    /\ Len(data.metadata) >= 2
    /\ Cardinality(cardsTable) > ChunkSize

\* C9: a run ends with exit code 0 if and only if no fatal error occurred:
\* every failure other than a deck row conflict gives a non-zero exit code,
\* and row conflicts and invalid-index warnings alone never do.
C9_ExitCode ==
    pc = "exited" => ((exitCode = 0) <=> (failures \cap FatalKinds = {}))

====
